---- MODULE Spec2Model ----
(***************************************************************************)
(* Behaviour documented by the typescript-scratchpad notes: TSC module     *)
(* resolution, the project-references build, the JavaScript-to-TypeScript  *)
(* migration procedure, the publishing ignore files and the Webpack/Babel  *)
(* rule.  Each topic is a component with its own variables and its own     *)
(* specification; a component that a specification does not exercise stays *)
(* in its idle state.                                                      *)
(***************************************************************************)
EXTENDS Integers, Sequences, FiniteSets, TLC

VARIABLES
    \* module resolution (tsconfig.md, "Module resolution flag")
    disk,        \* the files present: pairs <<module name, extension>>
    resolved,    \* per module name, what the last import of it resolved to
    \* project references (project-references/README.md)
    srcRev,      \* per project, the revision of its source
    distRev,     \* per project, the source revision its dist was built from (0: no dist)
    bundleRev,   \* the revision of ./src/index.ts the Webpack bundle was built from (0: none)
    buildPc,     \* "idle", or "running" while `tsc --build` is at work
    pending,     \* the projects the running build still has to compile
    order,       \* the projects the last build compiled, in the order it compiled them
    \* migration from JavaScript (migrating-to-ts.md)
    step,        \* the step of the procedure reached so far (0: TSC not yet added)
    allowJs,     \* compilerOptions.allowJs
    checkJs,     \* compilerOptions.checkJs
    ext,         \* per file, its extension: "js" or "ts"
    directive,   \* per file, "none", "check" (// @ts-check) or "nocheck" (// @ts-nocheck)
    buggy,       \* the files whose code has a type error
    tscRun,      \* what the last TSC run did, or NoRun once anything changed since
    noImplicitAny, \* compilerOptions.noImplicitAny
    \* publishing with declarations (tsconfig notes, .npmignore and .gitignore)
    fileName,    \* the name of a file of the package, a sequence of characters
    inNpm,       \* "?", or whether `npm publish` "included" or "excluded" the file
    inGit,       \* "?", or whether Git has the file "tracked" or "ignored"
    \* Webpack configuration (polyfills/webpack.config.js)
    resource,    \* the path of a file Webpack bundles, a sequence of path symbols
    built,       \* whether Webpack has matched the file against module.rules
    loaders,     \* the `use` entries applied to the file
    \* polyfills (migrating-to-ts.md, "TypeScript and polyfills")
    uses,        \* the built-in features the compiled file uses
    targets,     \* the environments `browserslist` in package.json names
    lacks,       \* per environment, the features it does not provide
    polyPc,      \* "source", "compiled" (by Babel) or "bundled" (by Webpack)
    injected,    \* the features whose core-js import Babel added to the file
    missing,     \* the injected imports Webpack could not resolve
    \* Babel and the TypeScript compiler as two tasks (migrating-to-ts.md, "TypeScript & Babel")
    typeErrors,  \* the TS files whose code has a type error
    babelTodo,   \* the TS files the Babel task has still to compile
    tscTodo,     \* the TS files the TypeScript compiler task has still to check
    emitted,     \* the JavaScript written so far: triples <<task, file, output>>
    reports,     \* the type errors reported so far: pairs <<task, file>>
    \* Interop with CommonJS (tsconfig.md, "Interop with commonjs")
    esModuleInterop, \* compilerOptions.esModuleInterop
    imports,         \* the form of each import of a CommonJS module
    bundlerAware,    \* the module loader and bundler know the module's format
    interopPc,       \* "source", "compiled" or "run"
    accepted,        \* the imports the compiler accepted
    works,           \* the imports that work at runtime
    \* The RequestBuilder class (types.md, "Class Builder Pattern")
    url,      \* the instance's url field
    method,   \* the instance's method field
    chain,    \* what the chain of calls written so far evaluates to
    threw,    \* a call in the chain threw a TypeError
    calls,    \* the setter calls of the chain so far: pairs <<setter, argument>>
    \* Conditional types (types.md, "Conditional types" and "Type utilities")
    typeA,       \* the type a utility is used on: the set of its union members
    typeB,       \* the type given as the second argument of Exclude and Extract
    applied,     \* the utilities evaluated so far
    excluded,    \* Exclude<typeA, typeB>
    extracted,   \* Extract<typeA, typeB>
    nonNullable, \* NonNullable<typeA>
    \* Enums (types.md, "Enums")
    enumKind,  \* "numeric" or "string": how Flippable's members are valued
    site,      \* where the value is used: flip's argument or let a: Flippable
    value,     \* the value used where a Flippable is expected
    enumVerdict,   \* Pending, "ok" or "error"
    \* Excess property checking (types.md, "Excess property checking")
    props,        \* the object literal: per property name its type, or "absent"
    via,          \* how the object reaches foo: "literal", "variable" or "assertion"
    fresh,        \* the object's type is still a fresh object literal type
    fooVerdict,   \* Pending, "ok" or "error": what TSC says about the call of foo
    \* warnUser (types.md, "Typing a function with a property")
    wasCalled,  \* warnUser.wasCalled
    alerts,     \* the warnings alert was invoked with, in order
    warnCalls,  \* the warnings warnUser was called with, in order
    \* filter (types.md, "Generics")
    array,     \* the array passed to filter
    accepts,   \* f: the items for which f(item) is true
    returned,  \* filter has returned
    result,    \* the array filter returned
    fCalls,    \* the items f was called with, in order
    \* The numbers iterable (types.md, "Iterable & Iterator")
    iterPos,   \* per iteration: "none", "created", "suspended" (at yield) or "done"
    loopN,     \* per iteration, the generator's loop variable n
    yielded,   \* per iteration, the values its iterator has yielded, in order
    \* changeColour (types.md, "Bounded generics")
    heap,        \* the objects made so far, in order of creation
    logged,      \* what console.log has printed, in order
    lastShape,   \* the object the last call of changeColour was given (0: no call yet)
    lastColour,  \* the colour the last call of changeColour was given
    lastResult   \* the object the last call of changeColour returned (0: no call yet)

resolutionVars == <<disk, resolved>>
buildVars == <<srcRev, distRev, bundleRev, buildPc, pending, order>>
migrationVars ==
    <<step, allowJs, checkJs, ext, directive, buggy, tscRun, noImplicitAny>>

publishVars == <<fileName, inNpm, inGit>>
webpackVars == <<resource, built, loaders>>
polyfillsVars == <<uses, targets, lacks, polyPc, injected, missing>>
tasksVars == <<typeErrors, babelTodo, tscTodo, emitted, reports>>
interopVars == <<esModuleInterop, imports, bundlerAware, interopPc, accepted, works>>
builderVars == <<url, method, chain, threw, calls>>
utilitiesVars == <<typeA, typeB, applied, excluded, extracted, nonNullable>>
enumsVars == <<enumKind, site, value, enumVerdict>>
excessVars == <<props, via, fresh, fooVerdict>>
warnVars == <<wasCalled, alerts, warnCalls>>
filterVars == <<array, accepts, returned, result, fCalls>>
numbersVars == <<iterPos, loopN, yielded>>
colourVars == <<heap, logged, lastShape, lastColour, lastResult>>

vars ==
    <<resolutionVars, buildVars, migrationVars, publishVars,
      webpackVars, polyfillsVars, tasksVars, interopVars,
      builderVars, utilitiesVars, enumsVars, excessVars,
      warnVars, filterVars, numbersVars, colourVars>>

(***************************************************************************)
(* Module resolution, `node` mode, import with an unspecified extension.   *)
(***************************************************************************)

\* How many extensionless module names the imports draw from.
NumModules == 2

ModuleNames == 1..NumModules

\* The extensions TypeScript looks for, in the order it looks for them.
Extensions == <<".ts", ".tsx", ".d.ts", ".js">>

ExtensionSet == {Extensions[i] : i \in 1..Len(Extensions)}

Pending == "pending"
NotFound == "not found"

\* Look for name + Extensions[i], then the following extensions, and stop at
\* the first file that exists.
RECURSIVE Probe(_, _, _)
Probe(files, name, i) ==
    IF i > Len(Extensions) THEN NotFound
    ELSE IF <<name, Extensions[i]>> \in files THEN Extensions[i]
    ELSE Probe(files, name, i + 1)

\* A resolver that keeps looking after a hit and so ends on the last candidate.
RECURSIVE ProbeLast(_, _, _)
ProbeLast(files, name, i) ==
    IF i < 1 THEN NotFound
    ELSE IF <<name, Extensions[i]>> \in files THEN Extensions[i]
    ELSE ProbeLast(files, name, i - 1)

ResolveLastCandidate(files, name) == ProbeLast(files, name, Len(Extensions))

ResolveModule(files, name) == Probe(files, name, 1)

ResolutionInit ==
    /\ disk = {}
    /\ resolved = [n \in ModuleNames |-> Pending]

ResolutionIdle == ResolutionInit

ResolutionFrame ==
    UNCHANGED
    <<buildVars, migrationVars, publishVars, webpackVars,
      polyfillsVars, tasksVars, interopVars, builderVars,
      utilitiesVars, enumsVars, excessVars, warnVars,
      filterVars, numbersVars, colourVars>>

\* A file appears on disk; what was resolved for its module name is stale.
CreateFile(n, e) ==
    /\ <<n, e>> \notin disk
    /\ disk' = disk \cup {<<n, e>>}
    /\ resolved' = [resolved EXCEPT ![n] = Pending]
    /\ ResolutionFrame

\* A file is removed from disk.
DeleteFile(n, e) ==
    /\ <<n, e>> \in disk
    /\ disk' = disk \ {<<n, e>>}
    /\ resolved' = [resolved EXCEPT ![n] = Pending]
    /\ ResolutionFrame

\* TSC compiles `import ... from "./n"`.
Import(n) ==
    /\ resolved[n] = Pending
    /\ resolved' = [resolved EXCEPT ![n] = ResolveModule(disk, n)]
    /\ UNCHANGED disk
    /\ ResolutionFrame

ResolutionNext ==
    \/ \E n \in ModuleNames, e \in ExtensionSet : CreateFile(n, e)
    \/ \E n \in ModuleNames, e \in ExtensionSet : DeleteFile(n, e)
    \/ \E n \in ModuleNames : Import(n)

(***************************************************************************)
(* Project references: the root tsconfig (for ./src/index.ts) references   *)
(* ModuleA, ModuleA references ModuleB; `tsc --build` at the root; Webpack *)
(* bundles the entry point.                                                *)
(***************************************************************************)

\* The highest source revision an update may reach.
MaxRev == 3

Root == "root"
Modules == {"ModuleA", "ModuleB"}
Projects == {Root} \cup Modules

\* The `references` each tsconfig.json declares.
references ==
    [p \in Projects |->
        CASE p = Root -> {"ModuleA"}
          [] p = "ModuleA" -> {"ModuleB"}
          [] p = "ModuleB" -> {}]

\* The root tsconfig sets noEmit; the modules build to their own dist.
noEmit == [p \in Projects |-> p = Root]

\* Only the projects the entry project names itself.
DirectOnly(S) == S \cup UNION {references[p] : p \in S}

\* The projects reached from S by following `references` transitively.
RECURSIVE Reach(_)
Reach(S) ==
    LET T == S \cup UNION {references[p] : p \in S}
    IN IF T = S THEN S ELSE Reach(T)

\* A project can be compiled once none of the projects it depends on is
\* still to be compiled.
Ready(p, todo) == references[p] \cap todo = {}

\* A compile that writes a dist folder for every project.
EmitAlways(p, src, dist) == src[p]

\* A compile that leaves an existing dist folder as it is.
EmitOnce(p, src, dist) ==
    IF noEmit[p] THEN dist[p] ELSE IF dist[p] = 0 THEN src[p] ELSE dist[p]

\* The revision of p's dist after TSC compiled p: a project with noEmit
\* is typechecked only and gets no output.
Emit(p, src, dist) == IF noEmit[p] THEN dist[p] ELSE src[p]

BuildInit ==
    /\ srcRev = [p \in Projects |-> 1]
    /\ distRev = [p \in Projects |-> 0]
    /\ bundleRev = 0
    /\ buildPc = "idle"
    /\ pending = {}
    /\ order = <<>>

BuildIdle == BuildInit

BuildFrame ==
    UNCHANGED
    <<resolutionVars, migrationVars, publishVars, webpackVars,
      polyfillsVars, tasksVars, interopVars, builderVars,
      utilitiesVars, enumsVars, excessVars, warnVars,
      filterVars, numbersVars, colourVars>>

\* The source of a project is edited.
Update(p) ==
    /\ buildPc = "idle"
    /\ srcRev[p] < MaxRev
    /\ srcRev' = [srcRev EXCEPT ![p] = @ + 1]
    /\ UNCHANGED <<distRev, bundleRev, buildPc, pending, order>>
    /\ BuildFrame

\* `tsc --build` is started at the root tsconfig.
StartBuild ==
    /\ buildPc = "idle"
    /\ buildPc' = "running"
    /\ pending' = Reach({Root})
    /\ order' = <<>>
    /\ UNCHANGED <<srcRev, distRev, bundleRev>>
    /\ BuildFrame

\* The running build compiles one project.
Compile(p) ==
    /\ buildPc = "running"
    /\ p \in pending
    /\ Ready(p, pending)
    /\ pending' = pending \ {p}
    /\ order' = Append(order, p)
    /\ distRev' = [distRev EXCEPT ![p] = Emit(p, srcRev, distRev)]
    /\ UNCHANGED <<srcRev, bundleRev, buildPc>>
    /\ BuildFrame

\* The build has compiled everything it reached.
FinishBuild ==
    /\ buildPc = "running"
    /\ pending = {}
    /\ buildPc' = "idle"
    /\ UNCHANGED <<srcRev, distRev, bundleRev, pending, order>>
    /\ BuildFrame

\* Webpack, with Babel, bundles from the entry point ./src/index.ts.
Bundle ==
    /\ buildPc = "idle"
    /\ bundleRev' = srcRev[Root]
    /\ UNCHANGED <<srcRev, distRev, buildPc, pending, order>>
    /\ BuildFrame

BuildNext ==
    \/ \E p \in Projects : Update(p)
    \/ StartBuild
    \/ \E p \in Projects : Compile(p)
    \/ FinishBuild
    \/ Bundle

(***************************************************************************)
(* Migrating a JavaScript project to TypeScript, step by step.             *)
(***************************************************************************)

\* How many source files the project has.
NumFiles == 3

Files == 1..NumFiles

JsFilesOf(e) == {f \in Files : e[f] = "js"}
TsFilesOf(e) == {f \in Files : e[f] = "ts"}

NoRun == [ran |-> FALSE, transpiled |-> {}, checked |-> {}, errors |-> {}]

\* A TSC that takes JavaScript files whatever allowJs says.
CompilesAll(aJs, e) == TRUE

\* A TSC that never takes JavaScript files.
CompilesTsOnly(aJs, e) == e = "ts"

\* TSC compiles TypeScript files, and JavaScript files when allowJs is on.
Compiles(aJs, e) == e = "ts" \/ aJs

\* A typechecker that knows the checkJs flag and no per-file directive.
CheckJsFlagOnly(cJs, d) == cJs

\* Whether a compiled JavaScript file is typechecked: checkJs decides, unless
\* the file says otherwise with // @ts-check or // @ts-nocheck.
CheckJsFile(cJs, d) ==
    IF d = "check" THEN TRUE
    ELSE IF d = "nocheck" THEN FALSE
    ELSE cJs

\* Whether TSC typechecks a file it compiles.
Typechecks(cJs, e, d) == IF e = "ts" THEN TRUE ELSE CheckJsFile(cJs, d)

\* A rename that resets the extension of every file it was not asked to rename.
RenamedOnly(e, S) == [f \in Files |-> IF f \in S THEN "ts" ELSE "js"]

\* The extensions after the files in S went from .js to .ts.
Renamed(e, S) == [f \in Files |-> IF f \in S THEN "ts" ELSE e[f]]

\* "The critical mass of your JavaScript code" has been migrated: here, most
\* of the files.
CriticalMass(e) == 2 * Cardinality(TsFilesOf(e)) > NumFiles

MigrationIdle ==
    /\ step = 0
    /\ allowJs = FALSE
    /\ checkJs = FALSE
    /\ ext = [f \in Files |-> "js"]
    /\ directive = [f \in Files |-> "none"]
    /\ buggy = {}
    /\ tscRun = NoRun
    /\ noImplicitAny = TRUE

\* A JavaScript project without TSC; any of its files may hide a type error.
MigrationInit ==
    /\ step = 0
    /\ allowJs = FALSE
    /\ checkJs = FALSE
    /\ ext = [f \in Files |-> "js"]
    /\ directive = [f \in Files |-> "none"]
    /\ buggy \in SUBSET Files
    /\ tscRun = NoRun
    /\ noImplicitAny = TRUE

MigrationFrame ==
    UNCHANGED
    <<resolutionVars, buildVars, publishVars, webpackVars,
      polyfillsVars, tasksVars, interopVars, builderVars,
      utilitiesVars, enumsVars, excessVars, warnVars,
      filterVars, numbersVars, colourVars>>

\* Step 1: add TSC, with allowJs.
AddTSC ==
    /\ step = 0
    /\ step' = 1
    /\ allowJs' = TRUE
    /\ tscRun' = NoRun
    /\ UNCHANGED <<checkJs, ext, directive, buggy, noImplicitAny>>
    /\ MigrationFrame

\* Step 2a: enable typechecking for JavaScript.
EnableCheckJs ==
    /\ step \in {1, 2}
    /\ ~checkJs
    /\ step' = 2
    /\ checkJs' = TRUE
    /\ tscRun' = NoRun
    /\ UNCHANGED <<allowJs, ext, directive, buggy, noImplicitAny>>
    /\ MigrationFrame

\* Step 2a: checkJs reports too many errors at once, turn it off.
DisableCheckJs ==
    /\ step = 2
    /\ checkJs
    /\ checkJs' = FALSE
    /\ tscRun' = NoRun
    /\ UNCHANGED <<step, allowJs, ext, directive, buggy, noImplicitAny>>
    /\ MigrationFrame

\* Step 2a: with checkJs off, enable checking for one JavaScript file.
AddTsCheck(f) ==
    /\ step \in {1, 2}
    /\ ~checkJs
    /\ ext[f] = "js"
    /\ directive[f] # "check"
    /\ step' = 2
    /\ directive' = [directive EXCEPT ![f] = "check"]
    /\ tscRun' = NoRun
    /\ UNCHANGED <<allowJs, checkJs, ext, buggy, noImplicitAny>>
    /\ MigrationFrame

\* Step 2a: with checkJs on, exempt one JavaScript file.
AddTsNoCheck(f) ==
    /\ step = 2
    /\ checkJs
    /\ ext[f] = "js"
    /\ directive[f] # "nocheck"
    /\ directive' = [directive EXCEPT ![f] = "nocheck"]
    /\ tscRun' = NoRun
    /\ UNCHANGED <<step, allowJs, checkJs, ext, buggy, noImplicitAny>>
    /\ MigrationFrame

\* Step 2a: with checkJs on, temporarily allow implicit anys.
AllowImplicitAny ==
    /\ step = 2
    /\ checkJs
    /\ noImplicitAny
    /\ noImplicitAny' = FALSE
    /\ tscRun' = NoRun
    /\ UNCHANGED <<step, allowJs, checkJs, ext, directive, buggy>>
    /\ MigrationFrame

\* Step 3: update one file's extension from .js to .ts.
RenameOne(f) ==
    /\ step \in 1..4
    /\ ext[f] = "js"
    /\ ext' = Renamed(ext, {f})
    /\ step' = IF step < 3 THEN 3 ELSE step
    /\ tscRun' = NoRun
    /\ UNCHANGED <<allowJs, checkJs, directive, buggy, noImplicitAny>>
    /\ MigrationFrame

\* Step 3, "do it fast": mass rename the JavaScript files.
MassRename ==
    /\ step \in 1..3
    /\ JsFilesOf(ext) # {}
    /\ ext' = Renamed(ext, JsFilesOf(ext))
    /\ step' = 3
    /\ tscRun' = NoRun
    /\ UNCHANGED <<allowJs, checkJs, directive, buggy, noImplicitAny>>
    /\ MigrationFrame

\* Step 4: once the critical mass is migrated, opt into the stricter flags.
MakeStrict ==
    /\ step = 3
    /\ CriticalMass(ext)
    /\ step' = 4
    /\ noImplicitAny' = TRUE
    /\ tscRun' = NoRun
    /\ UNCHANGED <<allowJs, checkJs, ext, directive, buggy>>
    /\ MigrationFrame

\* A last step that turns allowJs off and forgets checkJs.
DisableAllowJsOnly ==
    /\ step = 4
    /\ allowJs
    /\ allowJs' = FALSE
    /\ tscRun' = NoRun
    /\ UNCHANGED <<step, checkJs, ext, directive, buggy, noImplicitAny>>
    /\ MigrationFrame

\* Step 4, finally: disable the JavaScript interoperability flags.
DisableJsInterop ==
    /\ step = 4
    /\ allowJs
    /\ allowJs' = FALSE
    /\ checkJs' = FALSE
    /\ tscRun' = NoRun
    /\ UNCHANGED <<step, ext, directive, buggy, noImplicitAny>>
    /\ MigrationFrame

\* TSC runs over the project's files.
RunTsc ==
    /\ step >= 1
    /\ ~tscRun.ran
    /\ LET compiled == {f \in Files : Compiles(allowJs, ext[f])}
           checked == {f \in compiled : Typechecks(checkJs, ext[f], directive[f])}
       IN tscRun' = [ran |-> TRUE,
                     transpiled |-> compiled,
                     checked |-> checked,
                     errors |-> checked \cap buggy]
    /\ UNCHANGED <<step, allowJs, checkJs, ext, directive, buggy, noImplicitAny>>
    /\ MigrationFrame

Renaming == (\E f \in Files : RenameOne(f)) \/ MassRename

MigrationNext ==
    \/ AddTSC
    \/ EnableCheckJs
    \/ DisableCheckJs
    \/ \E f \in Files : AddTsCheck(f)
    \/ \E f \in Files : AddTsNoCheck(f)
    \/ AllowImplicitAny
    \/ \E f \in Files : RenameOne(f)
    \/ MassRename
    \/ MakeStrict
    \/ DisableJsInterop
    \/ RunTsc

(***************************************************************************)
(* Publishing with declarations: the .npmignore and .gitignore files.      *)
(***************************************************************************)

\* The longest file name considered, in characters.
MaxNameLen == 6

NameChars == {".", "d", "j", "s", "t"}

FileNames == UNION {[1..n -> NameChars] : n \in 1..MaxNameLen}

\* Whether the glob p (characters, "*" for any run of characters) matches s.
RECURSIVE Glob(_, _)
Glob(p, s) ==
    IF p = <<>> THEN s = <<>>
    ELSE IF Head(p) = "*"
         THEN Glob(Tail(p), s) \/ (s # <<>> /\ Glob(p, Tail(s)))
         ELSE s # <<>> /\ Head(s) = Head(p) /\ Glob(Tail(p), Tail(s))

\* # npmignore:  *.ts  !*.d.ts
npmignore ==
    << [negate |-> FALSE, glob |-> <<"*", ".", "t", "s">>],
       [negate |-> TRUE, glob |-> <<"*", ".", "d", ".", "t", "s">>] >>

\* # gitignore:  *.d.ts  *.js
gitignore ==
    << [negate |-> FALSE, glob |-> <<"*", ".", "d", ".", "t", "s">>],
       [negate |-> FALSE, glob |-> <<"*", ".", "j", "s">>] >>

\* The verdict of the lines from i on, given the verdict of the lines before:
\* each line that matches overrides what the earlier lines said, and a line
\* starting with ! includes again.
RECURSIVE IgnoredFrom(_, _, _, _)
IgnoredFrom(rules, name, i, verdict) ==
    IF i > Len(rules) THEN verdict
    ELSE IF Glob(rules[i].glob, name)
         THEN IgnoredFrom(rules, name, i + 1, ~rules[i].negate)
         ELSE IgnoredFrom(rules, name, i + 1, verdict)

\* An ignore file read with the first matching line deciding.
RECURSIVE IgnoredFirstMatch(_, _, _)
IgnoredFirstMatch(rules, name, i) ==
    IF i > Len(rules) THEN FALSE
    ELSE IF Glob(rules[i].glob, name) THEN ~rules[i].negate
    ELSE IgnoredFirstMatch(rules, name, i + 1)

IgnoredByFirst(rules, name) == IgnoredFirstMatch(rules, name, 1)

\* Whether an ignore file excludes the file of this name.
Ignored(rules, name) == IgnoredFrom(rules, name, 1, FALSE)

PublishIdle ==
    /\ fileName = <<"t", ".", "t", "s">>
    /\ inNpm = "?"
    /\ inGit = "?"

PublishInit ==
    /\ fileName \in FileNames
    /\ inNpm = "?"
    /\ inGit = "?"

PublishFrame ==
    UNCHANGED
    <<resolutionVars, buildVars, migrationVars, webpackVars,
      polyfillsVars, tasksVars, interopVars, builderVars,
      utilitiesVars, enumsVars, excessVars, warnVars,
      filterVars, numbersVars, colourVars>>

\* `npm publish` packs the files .npmignore does not exclude.
NpmPublish ==
    /\ inNpm = "?"
    /\ inNpm' = IF Ignored(npmignore, fileName) THEN "excluded" ELSE "included"
    /\ UNCHANGED <<fileName, inGit>>
    /\ PublishFrame

\* `git add` takes the files .gitignore does not exclude.
GitAdd ==
    /\ inGit = "?"
    /\ inGit' = IF Ignored(gitignore, fileName) THEN "ignored" ELSE "tracked"
    /\ UNCHANGED <<fileName, inNpm>>
    /\ PublishFrame

PublishNext ==
    \/ NpmPublish
    \/ GitAdd

(***************************************************************************)
(* The Webpack configuration: module.rules.                                *)
(***************************************************************************)

\* The longest path considered, in path symbols.
MaxPathLen == 5

\* A path is a sequence of characters; the run of characters node_modules is
\* one symbol.
PathSymbols == {"node_modules", "/", ".", "t", "s"}

Paths == UNION {[1..n -> PathSymbols] : n \in 1..MaxPathLen}

\* presets of babel-loader's options, in the order listed
presets == <<"@babel/preset-env", "@babel/preset-typescript">>

\* the options given to @babel/preset-env
presetEnvOptions == [useBuiltIns |-> "usage", corejs |-> "3.6"]

\* module.rules
rules ==
    << [test |-> [pattern |-> <<".", "t", "s">>, atEnd |-> TRUE],
        exclude |-> [pattern |-> <<"node_modules">>, atEnd |-> FALSE],
        use |-> [loader |-> "babel-loader",
                 presets |-> presets,
                 presetEnv |-> presetEnvOptions]] >>

\* RegExp.test: the pattern occurs in the path, at its end if it ends with $.
RegexTest(re, path) ==
    \E i \in 1..(Len(path) - Len(re.pattern) + 1) :
        /\ SubSeq(path, i, i + Len(re.pattern) - 1) = re.pattern
        /\ re.atEnd => i + Len(re.pattern) - 1 = Len(path)

\* A rule that forgets its `exclude`.
RuleAppliesNoExclude(rule, path) == RegexTest(rule.test, path)

\* A rule applies to a file that passes `test` and does not pass `exclude`.
RuleApplies(rule, path) ==
    /\ RegexTest(rule.test, path)
    /\ ~RegexTest(rule.exclude, path)

\* The `use` entries of the rules from i on that apply to the path.
RECURSIVE UseFrom(_, _)
UseFrom(i, path) ==
    IF i > Len(rules) THEN <<>>
    ELSE IF RuleApplies(rules[i], path)
         THEN <<rules[i].use>> \o UseFrom(i + 1, path)
         ELSE UseFrom(i + 1, path)

WebpackIdle ==
    /\ resource = <<"t", ".", "t", "s">>
    /\ built = FALSE
    /\ loaders = <<>>

WebpackInit ==
    /\ resource \in Paths
    /\ built = FALSE
    /\ loaders = <<>>

WebpackFrame ==
    UNCHANGED
    <<resolutionVars, buildVars, migrationVars, publishVars,
      polyfillsVars, tasksVars, interopVars, builderVars,
      utilitiesVars, enumsVars, excessVars, warnVars,
      filterVars, numbersVars, colourVars>>

\* Webpack matches the file against module.rules and runs the loaders.
BuildModule ==
    /\ ~built
    /\ built' = TRUE
    /\ loaders' = UseFrom(1, resource)
    /\ UNCHANGED resource
    /\ WebpackFrame

WebpackNext == BuildModule

(***************************************************************************)
(* Polyfills: @babel/preset-env with useBuiltIns "usage", and Webpack      *)
(* resolving the core-js imports it adds.                                  *)
(***************************************************************************)

\* How many built-in features (Array.prototype.flat, ...) are considered.
NumFeatures == 2

\* How many runtime environments `browserslist` can name.
NumEnvs == 2

Features == 1..NumFeatures
Envs == 1..NumEnvs

\* resolve.extensions of a configuration without the .js entry
tsOnlyExtensions == <<".ts">>

\* resolve.extensions
resolveExtensions == <<".ts", ".js">>

\* core-js ships the polyfill of each feature as a JavaScript file.
CoreJsFiles == {<<f, ".js">> : f \in Features}

\* The features some environment of the browserslist does not provide.
NeededBy(tgts, lck) == UNION {lck[e] : e \in tgts}

\* useBuiltIns "usage": the polyfills the file's own code requires.
PolyfillImports(used, tgts, lck) == used \cap NeededBy(tgts, lck)

\* Webpack resolves an import without extension by trying
\* resolve.extensions[i], then the following entries.
RECURSIVE ResolveFrom(_, _)
ResolveFrom(request, i) ==
    IF i > Len(resolveExtensions) THEN NotFound
    ELSE IF <<request, resolveExtensions[i]>> \in CoreJsFiles
         THEN resolveExtensions[i]
         ELSE ResolveFrom(request, i + 1)

PolyfillsIdle ==
    /\ uses = {}
    /\ targets = Envs
    /\ lacks = [e \in Envs |-> {}]
    /\ polyPc = "source"
    /\ injected = {}
    /\ missing = {}

\* A TypeScript file, and a package.json whose browserslist names at least
\* one environment.
PolyfillsInit ==
    /\ uses \in SUBSET Features
    /\ targets \in (SUBSET Envs) \ {{}}
    /\ lacks \in [Envs -> SUBSET Features]
    /\ polyPc = "source"
    /\ injected = {}
    /\ missing = {}

PolyfillsFrame ==
    UNCHANGED
    <<resolutionVars, buildVars, migrationVars, publishVars,
      webpackVars, tasksVars, interopVars, builderVars,
      utilitiesVars, enumsVars, excessVars, warnVars,
      filterVars, numbersVars, colourVars>>

\* babel-loader compiles the file; preset-env adds the core-js imports.
BabelCompile ==
    /\ polyPc = "source"
    /\ polyPc' = "compiled"
    /\ injected' = PolyfillImports(uses, targets, lacks)
    /\ UNCHANGED <<uses, targets, lacks, missing>>
    /\ PolyfillsFrame

\* Webpack resolves the imports of the compiled file.
ResolveImports ==
    /\ polyPc = "compiled"
    /\ polyPc' = "bundled"
    /\ missing' = {f \in injected : ResolveFrom(f, 1) = NotFound}
    /\ UNCHANGED <<uses, targets, lacks, injected>>
    /\ PolyfillsFrame

PolyfillsNext ==
    \/ BabelCompile
    \/ ResolveImports

(***************************************************************************)
(* Babel compiles the TS files into JS while, in parallel, the TypeScript  *)
(* compiler runs against the same files to catch type errors.              *)
(***************************************************************************)

\* How many TS files the two tasks work on.
NumTaskFiles == 3

TaskFiles == 1..NumTaskFiles

NoOutput == 0

\* The JavaScript a TS file compiles to: its code without the types.
JsOf(f) == f

\* A Babel task that gives up on a file the typecheck has reported.
BabelStopsOnError(f, reps) ==
    IF <<"tsc", f>> \in reps THEN NoOutput ELSE JsOf(f)

\* What Babel writes for a TS file: it removes the types and does not look
\* at what the typecheck found.
BabelOutput(f, reps) == JsOf(f)

TasksIdle ==
    /\ typeErrors = {}
    /\ babelTodo = TaskFiles
    /\ tscTodo = TaskFiles
    /\ emitted = {}
    /\ reports = {}

TasksInit ==
    /\ typeErrors \in SUBSET TaskFiles
    /\ babelTodo = TaskFiles
    /\ tscTodo = TaskFiles
    /\ emitted = {}
    /\ reports = {}

TasksFrame ==
    UNCHANGED
    <<resolutionVars, buildVars, migrationVars, publishVars,
      webpackVars, polyfillsVars, interopVars, builderVars,
      utilitiesVars, enumsVars, excessVars, warnVars,
      filterVars, numbersVars, colourVars>>

\* The Babel task compiles one TS file into JS.
BabelTask(f) ==
    /\ f \in babelTodo
    /\ babelTodo' = babelTodo \ {f}
    /\ emitted' = emitted \cup {<<"babel", f, BabelOutput(f, reports)>>}
    /\ UNCHANGED <<typeErrors, tscTodo, reports>>
    /\ TasksFrame

\* The TypeScript compiler task checks one TS file and reports its type
\* error, if it has one.
TscTask(f) ==
    /\ f \in tscTodo
    /\ tscTodo' = tscTodo \ {f}
    /\ reports' = IF f \in typeErrors THEN reports \cup {<<"tsc", f>>} ELSE reports
    /\ UNCHANGED <<typeErrors, babelTodo, emitted>>
    /\ TasksFrame

TasksNext ==
    \/ \E f \in TaskFiles : BabelTask(f)
    \/ \E f \in TaskFiles : TscTask(f)

(***************************************************************************)
(* Importing a CommonJS module: names and wildcards can always be          *)
(* imported, a default import needs esModuleInterop; what happens at       *)
(* runtime is up to the module loader and bundler.                         *)
(***************************************************************************)

\* How many imports of CommonJS modules the program has.
NumImports == 3

Imports == 1..NumImports

\* import { something } from "m"; import * as fs from "fs"; import fs from "fs"
ImportForms == {"named", "wildcard", "default"}

\* A compiler that accepts every form of import.
AcceptAnyForm(form, interop) == TRUE

\* Does the compiler accept this form of import of a CommonJS module?
Accept(form, interop) == form # "default" \/ interop

\* Does the import produce correct code at runtime?
WorksAtRuntime(form, aware) == form # "default" \/ aware

InteropIdle ==
    /\ esModuleInterop = FALSE
    /\ imports = [i \in Imports |-> "named"]
    /\ bundlerAware = FALSE
    /\ interopPc = "source"
    /\ accepted = {}
    /\ works = {}

InteropInit ==
    /\ esModuleInterop \in BOOLEAN
    /\ imports \in [Imports -> ImportForms]
    /\ bundlerAware \in BOOLEAN
    /\ interopPc = "source"
    /\ accepted = {}
    /\ works = {}

InteropFrame ==
    UNCHANGED
    <<resolutionVars, buildVars, migrationVars, publishVars,
      webpackVars, polyfillsVars, tasksVars, builderVars,
      utilitiesVars, enumsVars, excessVars, warnVars,
      filterVars, numbersVars, colourVars>>

\* TSC checks every import.
CheckImports ==
    /\ interopPc = "source"
    /\ interopPc' = "compiled"
    /\ accepted' = {i \in Imports : Accept(imports[i], esModuleInterop)}
    /\ UNCHANGED <<esModuleInterop, imports, bundlerAware, works>>
    /\ InteropFrame

\* The program compiled; the bundle is loaded and run.
RunBundle ==
    /\ interopPc = "compiled"
    /\ accepted = Imports
    /\ interopPc' = "run"
    /\ works' = {i \in Imports : WorksAtRuntime(imports[i], bundlerAware)}
    /\ UNCHANGED <<esModuleInterop, imports, bundlerAware, accepted>>
    /\ InteropFrame

InteropNext ==
    \/ CheckImports
    \/ RunBundle

(***************************************************************************)
(* The RequestBuilder class and a chain of setter calls on a new instance. *)
(***************************************************************************)

\* How many setter calls a chain has at most.
MaxCalls == 4

Null == "null"

Undefined == "undefined"

\* The instance the chain starts from.
This == "this"

Urls == {"/users", "/posts"}

Methods == {"get", "post"}

BuilderIdle ==
    /\ url = Null
    /\ method = Undefined
    /\ chain = This
    /\ threw = FALSE
    /\ calls = <<>>

\* new RequestBuilder()
BuilderInit ==
    /\ url = Null
    /\ method = Undefined
    /\ chain = This
    /\ threw = FALSE
    /\ calls = <<>>

BuilderFrame ==
    UNCHANGED
    <<resolutionVars, buildVars, migrationVars, publishVars,
      webpackVars, polyfillsVars, tasksVars, interopVars,
      utilitiesVars, enumsVars, excessVars, warnVars,
      filterVars, numbersVars, colourVars>>

\* .setURL(u) on what the chain evaluates to: a call on undefined throws;
\* on the instance it stores the url and returns the instance.
setURL(u) ==
    /\ ~threw
    /\ Len(calls) < MaxCalls
    /\ calls' = Append(calls, <<"setURL", u>>)
    /\ IF chain = This
          THEN /\ url' = u
               /\ chain' = This
               /\ UNCHANGED threw
          ELSE /\ threw' = TRUE
               /\ UNCHANGED <<url, chain>>
    /\ UNCHANGED method
    /\ BuilderFrame

\* .setMethod(m) on what the chain evaluates to: a call on undefined throws;
\* on the instance it stores the method, and the body ends without a return
\* statement, so the call evaluates to undefined.
setMethod(m) ==
    /\ ~threw
    /\ Len(calls) < MaxCalls
    /\ calls' = Append(calls, <<"setMethod", m>>)
    /\ IF chain = This
          THEN /\ method' = m
               /\ chain' = Undefined
               /\ UNCHANGED threw
          ELSE /\ threw' = TRUE
               /\ UNCHANGED <<method, chain>>
    /\ UNCHANGED url
    /\ BuilderFrame

BuilderNext ==
    \/ \E u \in Urls : setURL(u)
    \/ \E m \in Methods : setMethod(m)

(***************************************************************************)
(* The conditional type utilities Exclude, Extract and NonNullable.  A     *)
(* type is the set of the members of its union; a member is a primitive, a *)
(* literal or an object type with one optional property a.                 *)
(***************************************************************************)

\* How many members a union type has at most.
MaxUnion == 3

Atom(n) == [kind |-> "atom", name |-> n, prop |-> {}]

\* { a?: p }, p the set of the names of the members of the property's type
Obj(p) == [kind |-> "object", name |-> "a", prop |-> p]

Primitives == {"number", "string", "null", "undefined"}

Literals == {"one", "two", "3"}

\* The primitive type a literal type belongs to.
Base(n) ==
    IF n \in {"one", "two"} THEN "string"
    ELSE IF n = "3" THEN "number"
    ELSE n

Members ==
    {Atom(n) : n \in Primitives \cup Literals}
        \cup {Obj({"number"}), Obj({"number", "null"})}

Unions == {T \in SUBSET Members : T # {} /\ Cardinality(T) <= MaxUnion}

\* Assignability that knows only identical types.
AssignableIfSame(m, T) == m \in T

\* Is the member m assignable to the type T?
Assignable(m, T) ==
    \E n \in T :
        \/ m = n
        \/ m.kind = "atom" /\ n.kind = "atom" /\ Base(m.name) = n.name
        \/ m.kind = "object" /\ n.kind = "object" /\ m.prop \subseteq n.prop

\* Exclude a type from another type.
Exclude(T, U) == {m \in T : ~Assignable(m, U)}

\* Select a subtype that's assignable to another type.
Extract(T, U) == {m \in T : Assignable(m, U)}

\* Exclude null and undefined from a type.
NonNullable(T) == Exclude(T, {Atom("null"), Atom("undefined")})

UtilitiesIdle ==
    /\ typeA = {Atom("number")}
    /\ typeB = {Atom("number")}
    /\ applied = {}
    /\ excluded = {}
    /\ extracted = {}
    /\ nonNullable = {}

UtilitiesInit ==
    /\ typeA \in Unions
    /\ typeB \in Unions
    /\ applied = {}
    /\ excluded = {}
    /\ extracted = {}
    /\ nonNullable = {}

UtilitiesFrame ==
    UNCHANGED
    <<resolutionVars, buildVars, migrationVars, publishVars,
      webpackVars, polyfillsVars, tasksVars, interopVars,
      builderVars, enumsVars, excessVars, warnVars,
      filterVars, numbersVars, colourVars>>

\* type C = Exclude<A, B>
ApplyExclude ==
    /\ "Exclude" \notin applied
    /\ applied' = applied \cup {"Exclude"}
    /\ excluded' = Exclude(typeA, typeB)
    /\ UNCHANGED <<typeA, typeB, extracted, nonNullable>>
    /\ UtilitiesFrame

\* type E = Extract<D, string>
ApplyExtract ==
    /\ "Extract" \notin applied
    /\ applied' = applied \cup {"Extract"}
    /\ extracted' = Extract(typeA, typeB)
    /\ UNCHANGED <<typeA, typeB, excluded, nonNullable>>
    /\ UtilitiesFrame

\* type G = NonNullable<F>
ApplyNonNullable ==
    /\ "NonNullable" \notin applied
    /\ applied' = applied \cup {"NonNullable"}
    /\ nonNullable' = NonNullable(typeA)
    /\ UNCHANGED <<typeA, typeB, excluded, extracted>>
    /\ UtilitiesFrame

UtilitiesNext ==
    \/ ApplyExclude
    \/ ApplyExtract
    \/ ApplyNonNullable

(***************************************************************************)
(* The enum Flippable, declared with numeric or with string values, and a  *)
(* value used where a Flippable is expected.                               *)
(***************************************************************************)

\* The largest number literal used as a value.
MaxNum == 9

Flippable == <<"Burger", "Pancake", "Plate">>

\* Flippable.Burger, Flippable.Pancake, Flippable.Plate and number literals
EnumValues ==
    [kind : {"member"}, v : 1..Len(Flippable)]
        \cup [kind : {"number"}, v : 0..MaxNum]

\* An enum that takes its own members' values only.
AcceptsMemberValues(kind, val) ==
    \/ val.kind = "member"
    \/ kind = "numeric" /\ val.kind = "number" /\ val.v < Len(Flippable)

\* Is the value accepted where the enum type is expected?
Accepts(kind, val) ==
    \/ val.kind = "member"
    \/ kind = "numeric" /\ val.kind = "number"

EnumsIdle ==
    /\ enumKind = "numeric"
    /\ site = "argument"
    /\ value = [kind |-> "member", v |-> 1]
    /\ enumVerdict = Pending

EnumsInit ==
    /\ enumKind \in {"numeric", "string"}
    /\ site \in {"argument", "assignment"}
    /\ value \in EnumValues
    /\ enumVerdict = Pending

EnumsFrame ==
    UNCHANGED
    <<resolutionVars, buildVars, migrationVars, publishVars,
      webpackVars, polyfillsVars, tasksVars, interopVars,
      builderVars, utilitiesVars, excessVars, warnVars,
      filterVars, numbersVars, colourVars>>

\* TSC checks flip(value) or let a: Flippable = value.
CheckEnumUse ==
    /\ enumVerdict = Pending
    /\ enumVerdict' = IF Accepts(enumKind, value) THEN "ok" ELSE "error"
    /\ UNCHANGED <<enumKind, site, value>>
    /\ EnumsFrame

EnumsNext == CheckEnumUse

(***************************************************************************)
(* An object literal passed to foo: (options: Options) => void, directly,  *)
(* through a variable or with a type assertion.                            *)
(***************************************************************************)

\* How many property names outside the type Options the literal may use.
NumNotTyped == 2

\* The property of type Options = { prop: number }.
prop == 0

\* The property names that do not exist in type Options.
NotTyped == 1..NumNotTyped

PropTypes == {"absent", "number", "string"}

\* Widening that leaves the object literal type as fresh as it was.
StaysFresh(f) == f

\* The freshness of a fresh object literal type once it is widened to a
\* regular object type.
Widened(f) == FALSE

\* Does the object have the properties of Options, with their types?
Structural(p) == p[prop] = "number"

\* Does the object specify a property that does not exist in Options?
Excess(p) == \E n \in NotTyped : p[n] # "absent"

ExcessIdle ==
    /\ props = [n \in {prop} \cup NotTyped |-> "absent"]
    /\ via = "literal"
    /\ fresh = TRUE
    /\ fooVerdict = Pending

\* An object literal has just been written.
ExcessInit ==
    /\ props \in [{prop} \cup NotTyped -> PropTypes]
    /\ via = "literal"
    /\ fresh = TRUE
    /\ fooVerdict = Pending

ExcessFrame ==
    UNCHANGED
    <<resolutionVars, buildVars, migrationVars, publishVars,
      webpackVars, polyfillsVars, tasksVars, interopVars,
      builderVars, utilitiesVars, enumsVars, warnVars,
      filterVars, numbersVars, colourVars>>

\* const options = { ... }
AssignToVariable ==
    /\ via = "literal"
    /\ fooVerdict = Pending
    /\ via' = "variable"
    /\ fresh' = Widened(fresh)
    /\ UNCHANGED <<props, fooVerdict>>
    /\ ExcessFrame

\* { ... } as Options
TypeAssertion ==
    /\ via = "literal"
    /\ fooVerdict = Pending
    /\ via' = "assertion"
    /\ fresh' = Widened(fresh)
    /\ UNCHANGED <<props, fooVerdict>>
    /\ ExcessFrame

\* foo(...): excess property checking happens for a fresh object literal
\* type only.
CallFoo ==
    /\ fooVerdict = Pending
    /\ fooVerdict' =
          IF Structural(props) /\ ~(fresh /\ Excess(props)) THEN "ok" ELSE "error"
    /\ UNCHANGED <<props, via, fresh>>
    /\ ExcessFrame

ExcessNext ==
    \/ AssignToVariable
    \/ TypeAssertion
    \/ CallFoo

(***************************************************************************)
(* warnUser, a function with the property wasCalled.                       *)
(***************************************************************************)

\* How many calls of warnUser are followed.
MaxWarnCalls == 4

Warnings == {"low disk", "no network", "timeout"}

\* A warnUser that alerts on every call.
AlertEveryCall(called, shown, warning) == Append(shown, warning)

\* The alerts shown after a call of warnUser: the call returns at once if
\* wasCalled is set, and calls alert(warning) otherwise.
AlertUnlessCalled(called, shown, warning) ==
    IF called THEN shown ELSE Append(shown, warning)

WarnIdle ==
    /\ wasCalled = FALSE
    /\ alerts = <<>>
    /\ warnCalls = <<>>

\* warnUser.wasCalled = false
WarnInit ==
    /\ wasCalled = FALSE
    /\ alerts = <<>>
    /\ warnCalls = <<>>

WarnFrame ==
    UNCHANGED
    <<resolutionVars, buildVars, migrationVars, publishVars,
      webpackVars, polyfillsVars, tasksVars, interopVars,
      builderVars, utilitiesVars, enumsVars, excessVars,
      filterVars, numbersVars, colourVars>>

\* warnUser(warning)
warnUser(warning) ==
    /\ Len(warnCalls) < MaxWarnCalls
    /\ warnCalls' = Append(warnCalls, warning)
    /\ alerts' = AlertUnlessCalled(wasCalled, alerts, warning)
    /\ wasCalled' = TRUE
    /\ WarnFrame

WarnNext == \E warning \in Warnings : warnUser(warning)

(***************************************************************************)
(* filter(array, f): the items of array for which f is true.               *)
(***************************************************************************)

\* How many items the array has at most.
MaxItems == 3

Names == {"Peter", "Paul", "Suzy"}

Arrays == UNION {[1..n -> Names] : n \in 0..MaxItems}

\* A push that puts the item in front.
Unshift(res, item) == <<item>> \o res

\* result.push(item)
Push(res, item) == Append(res, item)

\* array.forEach from index i on, given the result and the calls of f so far:
\* f is called with the item and the item is pushed if f(item) is true.
RECURSIVE ForEach(_, _, _, _, _)
ForEach(arr, f, i, res, seen) ==
    IF i > Len(arr) THEN [result |-> res, fCalls |-> seen]
    ELSE ForEach(arr, f, i + 1,
                 IF arr[i] \in f THEN Push(res, arr[i]) ELSE res,
                 Append(seen, arr[i]))

FilterIdle ==
    /\ array = <<>>
    /\ accepts = {}
    /\ returned = FALSE
    /\ result = <<>>
    /\ fCalls = <<>>

FilterInit ==
    /\ array \in Arrays
    /\ accepts \in SUBSET Names
    /\ returned = FALSE
    /\ result = <<>>
    /\ fCalls = <<>>

FilterFrame ==
    UNCHANGED
    <<resolutionVars, buildVars, migrationVars, publishVars,
      webpackVars, polyfillsVars, tasksVars, interopVars,
      builderVars, utilitiesVars, enumsVars, excessVars,
      warnVars, numbersVars, colourVars>>

\* filter(array, f): let result = []; array.forEach(...); return result
filter ==
    /\ ~returned
    /\ returned' = TRUE
    /\ LET run == ForEach(array, accepts, 1, <<>>, <<>>)
       IN  /\ result' = run.result
           /\ fCalls' = run.fCalls
    /\ UNCHANGED <<array, accepts>>
    /\ FilterFrame

FilterNext == filter

(***************************************************************************)
(* The numbers iterable: each call of numbers[Symbol.iterator]() makes a   *)
(* generator of its own, which the iteration then drives with next().      *)
(***************************************************************************)

\* How many iterations of numbers are in progress at once.
NumIterations == 2

Iterations == 1..NumIterations

\* for (let n = 1; ...
FirstN == 1

\* ... n <= 10; ...
LastN == 10

\* A loop that stops one short.
LoopBelow(k) == k < LastN

\* The loop's condition.
LoopCondition(k) == k <= LastN

NumbersIdle ==
    /\ iterPos = [i \in Iterations |-> "none"]
    /\ loopN = [i \in Iterations |-> FirstN]
    /\ yielded = [i \in Iterations |-> <<>>]

\* No iteration has begun.
NumbersInit ==
    /\ iterPos = [i \in Iterations |-> "none"]
    /\ loopN = [i \in Iterations |-> FirstN]
    /\ yielded = [i \in Iterations |-> <<>>]

NumbersFrame ==
    UNCHANGED
    <<resolutionVars, buildVars, migrationVars, publishVars,
      webpackVars, polyfillsVars, tasksVars, interopVars,
      builderVars, utilitiesVars, enumsVars, excessVars,
      warnVars, filterVars, colourVars>>

\* numbers[Symbol.iterator](): a new generator, its body not yet started.
GetIterator(i) ==
    /\ iterPos[i] = "none"
    /\ iterPos' = [iterPos EXCEPT ![i] = "created"]
    /\ UNCHANGED <<loopN, yielded>>
    /\ NumbersFrame

\* iterator.next(): the body runs to the next yield or to its end.  On the
\* first call n starts at 1; on a later call the loop resumes with n++.
IteratorNext(i) ==
    /\ iterPos[i] \in {"created", "suspended"}
    /\ LET k == IF iterPos[i] = "created" THEN FirstN ELSE loopN[i] + 1
       IN  /\ loopN' = [loopN EXCEPT ![i] = k]
           /\ IF LoopCondition(k)
                 THEN /\ yielded' = [yielded EXCEPT ![i] = Append(@, k)]
                      /\ iterPos' = [iterPos EXCEPT ![i] = "suspended"]
                 ELSE /\ iterPos' = [iterPos EXCEPT ![i] = "done"]
                      /\ UNCHANGED yielded
    /\ NumbersFrame

NumbersNext ==
    \/ \E i \in Iterations : GetIterator(i)
    \/ \E i \in Iterations : IteratorNext(i)

(***************************************************************************)
(* changeColour(shape, colour) on shapes: objects with name and colour,    *)
(* a Square having sides: 4 as well.                                       *)
(***************************************************************************)

\* How many objects are made at most.
MaxObjects == 3

ShapeProps == {"name", "colour", "sides"}

ShapeNames == {"square", "circle"}

Colours == {"blue", "red", "green"}

\* Shape: name and colour; Square: Shape & { sides: 4 }
Shapes ==
    {o \in [ShapeProps -> ShapeNames \cup Colours \cup {"absent", "4"}] :
        /\ o["name"] \in ShapeNames
        /\ o["colour"] \in Colours
        /\ o["sides"] \in {"absent", "4"}}

\* A copy that keeps what type Shape declares and nothing else.
ShapeOnly(o, c) ==
    [p \in ShapeProps |->
        IF p = "colour" THEN c ELSE IF p = "name" THEN o[p] ELSE "absent"]

\* { ...shape, colour }: every property of shape, and then colour.
SpreadWithColour(o, c) ==
    [p \in ShapeProps |-> IF p = "colour" THEN c ELSE o[p]]

ColourIdle ==
    /\ heap = <<>>
    /\ logged = <<>>
    /\ lastShape = 0
    /\ lastColour = "blue"
    /\ lastResult = 0

\* const square: Square = { ... }, or another shape
ColourInit ==
    /\ heap \in {<<o>> : o \in Shapes}
    /\ logged = <<>>
    /\ lastShape = 0
    /\ lastColour = "blue"
    /\ lastResult = 0

ColourFrame ==
    UNCHANGED
    <<resolutionVars, buildVars, migrationVars, publishVars,
      webpackVars, polyfillsVars, tasksVars, interopVars,
      builderVars, utilitiesVars, enumsVars, excessVars,
      warnVars, filterVars, numbersVars>>

\* changeColour(shape, colour): logs shape.name and returns a new object.
changeColour(shape, colour) ==
    /\ Len(heap) < MaxObjects
    /\ logged' = Append(logged, heap[shape]["name"])
    /\ heap' = Append(heap, SpreadWithColour(heap[shape], colour))
    /\ lastShape' = shape
    /\ lastColour' = colour
    /\ lastResult' = Len(heap) + 1
    /\ ColourFrame

ColourNext ==
    \E shape \in 1..Len(heap), colour \in Colours : changeColour(shape, colour)

(***************************************************************************)
(* Specifications: one per component.                                      *)
(***************************************************************************)

InitResolution ==
    /\ ResolutionInit
    /\ BuildIdle
    /\ MigrationIdle
    /\ PublishIdle
    /\ WebpackIdle
    /\ PolyfillsIdle
    /\ TasksIdle
    /\ InteropIdle
    /\ BuilderIdle
    /\ UtilitiesIdle
    /\ EnumsIdle
    /\ ExcessIdle
    /\ WarnIdle
    /\ FilterIdle
    /\ NumbersIdle
    /\ ColourIdle

SpecResolution == InitResolution /\ [][ResolutionNext]_vars

InitBuild ==
    /\ BuildInit
    /\ ResolutionIdle
    /\ MigrationIdle
    /\ PublishIdle
    /\ WebpackIdle
    /\ PolyfillsIdle
    /\ TasksIdle
    /\ InteropIdle
    /\ BuilderIdle
    /\ UtilitiesIdle
    /\ EnumsIdle
    /\ ExcessIdle
    /\ WarnIdle
    /\ FilterIdle
    /\ NumbersIdle
    /\ ColourIdle

SpecBuild == InitBuild /\ [][BuildNext]_vars

InitMigration ==
    /\ MigrationInit
    /\ ResolutionIdle
    /\ BuildIdle
    /\ PublishIdle
    /\ WebpackIdle
    /\ PolyfillsIdle
    /\ TasksIdle
    /\ InteropIdle
    /\ BuilderIdle
    /\ UtilitiesIdle
    /\ EnumsIdle
    /\ ExcessIdle
    /\ WarnIdle
    /\ FilterIdle
    /\ NumbersIdle
    /\ ColourIdle

SpecMigration == InitMigration /\ [][MigrationNext]_vars

\* Step 3 is repeated for as long as a .js file is left.
FairSpecMigration == SpecMigration /\ WF_vars(Renaming)

InitPublish ==
    /\ PublishInit
    /\ ResolutionIdle
    /\ BuildIdle
    /\ MigrationIdle
    /\ WebpackIdle
    /\ PolyfillsIdle
    /\ TasksIdle
    /\ InteropIdle
    /\ BuilderIdle
    /\ UtilitiesIdle
    /\ EnumsIdle
    /\ ExcessIdle
    /\ WarnIdle
    /\ FilterIdle
    /\ NumbersIdle
    /\ ColourIdle

SpecPublish == InitPublish /\ [][PublishNext]_vars

InitWebpack ==
    /\ WebpackInit
    /\ ResolutionIdle
    /\ BuildIdle
    /\ MigrationIdle
    /\ PublishIdle
    /\ PolyfillsIdle
    /\ TasksIdle
    /\ InteropIdle
    /\ BuilderIdle
    /\ UtilitiesIdle
    /\ EnumsIdle
    /\ ExcessIdle
    /\ WarnIdle
    /\ FilterIdle
    /\ NumbersIdle
    /\ ColourIdle

SpecWebpack == InitWebpack /\ [][WebpackNext]_vars

InitPolyfills ==
    /\ PolyfillsInit
    /\ ResolutionIdle
    /\ BuildIdle
    /\ MigrationIdle
    /\ PublishIdle
    /\ WebpackIdle
    /\ TasksIdle
    /\ InteropIdle
    /\ BuilderIdle
    /\ UtilitiesIdle
    /\ EnumsIdle
    /\ ExcessIdle
    /\ WarnIdle
    /\ FilterIdle
    /\ NumbersIdle
    /\ ColourIdle

SpecPolyfills == InitPolyfills /\ [][PolyfillsNext]_vars

InitTasks ==
    /\ TasksInit
    /\ ResolutionIdle
    /\ BuildIdle
    /\ MigrationIdle
    /\ PublishIdle
    /\ WebpackIdle
    /\ PolyfillsIdle
    /\ InteropIdle
    /\ BuilderIdle
    /\ UtilitiesIdle
    /\ EnumsIdle
    /\ ExcessIdle
    /\ WarnIdle
    /\ FilterIdle
    /\ NumbersIdle
    /\ ColourIdle

SpecTasks == InitTasks /\ [][TasksNext]_vars

InitInterop ==
    /\ InteropInit
    /\ ResolutionIdle
    /\ BuildIdle
    /\ MigrationIdle
    /\ PublishIdle
    /\ WebpackIdle
    /\ PolyfillsIdle
    /\ TasksIdle
    /\ BuilderIdle
    /\ UtilitiesIdle
    /\ EnumsIdle
    /\ ExcessIdle
    /\ WarnIdle
    /\ FilterIdle
    /\ NumbersIdle
    /\ ColourIdle

SpecInterop == InitInterop /\ [][InteropNext]_vars

InitBuilder ==
    /\ BuilderInit
    /\ ResolutionIdle
    /\ BuildIdle
    /\ MigrationIdle
    /\ PublishIdle
    /\ WebpackIdle
    /\ PolyfillsIdle
    /\ TasksIdle
    /\ InteropIdle
    /\ UtilitiesIdle
    /\ EnumsIdle
    /\ ExcessIdle
    /\ WarnIdle
    /\ FilterIdle
    /\ NumbersIdle
    /\ ColourIdle

SpecBuilder == InitBuilder /\ [][BuilderNext]_vars

InitUtilities ==
    /\ UtilitiesInit
    /\ ResolutionIdle
    /\ BuildIdle
    /\ MigrationIdle
    /\ PublishIdle
    /\ WebpackIdle
    /\ PolyfillsIdle
    /\ TasksIdle
    /\ InteropIdle
    /\ BuilderIdle
    /\ EnumsIdle
    /\ ExcessIdle
    /\ WarnIdle
    /\ FilterIdle
    /\ NumbersIdle
    /\ ColourIdle

SpecUtilities == InitUtilities /\ [][UtilitiesNext]_vars

InitEnums ==
    /\ EnumsInit
    /\ ResolutionIdle
    /\ BuildIdle
    /\ MigrationIdle
    /\ PublishIdle
    /\ WebpackIdle
    /\ PolyfillsIdle
    /\ TasksIdle
    /\ InteropIdle
    /\ BuilderIdle
    /\ UtilitiesIdle
    /\ ExcessIdle
    /\ WarnIdle
    /\ FilterIdle
    /\ NumbersIdle
    /\ ColourIdle

SpecEnums == InitEnums /\ [][EnumsNext]_vars

InitExcess ==
    /\ ExcessInit
    /\ ResolutionIdle
    /\ BuildIdle
    /\ MigrationIdle
    /\ PublishIdle
    /\ WebpackIdle
    /\ PolyfillsIdle
    /\ TasksIdle
    /\ InteropIdle
    /\ BuilderIdle
    /\ UtilitiesIdle
    /\ EnumsIdle
    /\ WarnIdle
    /\ FilterIdle
    /\ NumbersIdle
    /\ ColourIdle

SpecExcess == InitExcess /\ [][ExcessNext]_vars

InitWarn ==
    /\ WarnInit
    /\ ResolutionIdle
    /\ BuildIdle
    /\ MigrationIdle
    /\ PublishIdle
    /\ WebpackIdle
    /\ PolyfillsIdle
    /\ TasksIdle
    /\ InteropIdle
    /\ BuilderIdle
    /\ UtilitiesIdle
    /\ EnumsIdle
    /\ ExcessIdle
    /\ FilterIdle
    /\ NumbersIdle
    /\ ColourIdle

SpecWarn == InitWarn /\ [][WarnNext]_vars

InitFilter ==
    /\ FilterInit
    /\ ResolutionIdle
    /\ BuildIdle
    /\ MigrationIdle
    /\ PublishIdle
    /\ WebpackIdle
    /\ PolyfillsIdle
    /\ TasksIdle
    /\ InteropIdle
    /\ BuilderIdle
    /\ UtilitiesIdle
    /\ EnumsIdle
    /\ ExcessIdle
    /\ WarnIdle
    /\ NumbersIdle
    /\ ColourIdle

SpecFilter == InitFilter /\ [][FilterNext]_vars

InitNumbers ==
    /\ NumbersInit
    /\ ResolutionIdle
    /\ BuildIdle
    /\ MigrationIdle
    /\ PublishIdle
    /\ WebpackIdle
    /\ PolyfillsIdle
    /\ TasksIdle
    /\ InteropIdle
    /\ BuilderIdle
    /\ UtilitiesIdle
    /\ EnumsIdle
    /\ ExcessIdle
    /\ WarnIdle
    /\ FilterIdle
    /\ ColourIdle

SpecNumbers == InitNumbers /\ [][NumbersNext]_vars

\* An iteration goes on calling next() until the iterator is done.
FairSpecNumbers ==
    SpecNumbers /\ \A i \in Iterations : WF_vars(IteratorNext(i))

InitColour ==
    /\ ColourInit
    /\ ResolutionIdle
    /\ BuildIdle
    /\ MigrationIdle
    /\ PublishIdle
    /\ WebpackIdle
    /\ PolyfillsIdle
    /\ TasksIdle
    /\ InteropIdle
    /\ BuilderIdle
    /\ UtilitiesIdle
    /\ EnumsIdle
    /\ ExcessIdle
    /\ WarnIdle
    /\ FilterIdle
    /\ NumbersIdle

SpecColour == InitColour /\ [][ColourNext]_vars

(***************************************************************************)
(* Claims.                                                                 *)
(***************************************************************************)

\* The probe order the documentation states, as ranks.
DocRank(e) ==
    CASE e = ".ts" -> 1
      [] e = ".tsx" -> 2
      [] e = ".d.ts" -> 3
      [] e = ".js" -> 4

\* C1: an extensionless import resolves to the first existing candidate in the
\* order .ts, .tsx, .d.ts, .js: the chosen file exists, no candidate with an
\* earlier extension exists, and resolution fails only when none of the four
\* candidates exists.
C1_FirstExistingCandidate ==
    \A n \in ModuleNames :
        /\ resolved[n] \in {".ts", ".tsx", ".d.ts", ".js"} =>
              /\ <<n, resolved[n]>> \in disk
              /\ \A e \in {".ts", ".tsx", ".d.ts", ".js"} :
                    DocRank(e) < DocRank(resolved[n]) => <<n, e>> \notin disk
        /\ resolved[n] = NotFound =>
              \A e \in {".ts", ".tsx", ".d.ts", ".js"} : <<n, e>> \notin disk
        /\ resolved[n] \in {".ts", ".tsx", ".d.ts", ".js", NotFound, Pending}

\* A later candidate (.js) exists, and the earlier .tsx was chosen.
C1_Witness ==
    \E n \in ModuleNames :
        /\ resolved[n] = ".tsx"
        /\ <<n, ".js">> \in disk
        /\ <<n, ".d.ts">> \in disk
        /\ \E m \in ModuleNames : resolved[m] = NotFound

SeqSet(s) == {s[i] : i \in 1..Len(s)}

\* The position of project p in the compile order (0: not compiled).
PosIn(s, p) == IF p \in SeqSet(s) THEN CHOOSE i \in 1..Len(s) : s[i] = p ELSE 0

\* C2: following `references` transitively from the root reaches ModuleA and
\* ModuleB, so a build started at the root compiles both, and a project is
\* compiled only after every project it references (ModuleB before ModuleA).
C2_BuildReachesAllInOrder ==
    /\ buildPc = "running" =>
          SeqSet(order) \cup pending = {"root", "ModuleA", "ModuleB"}
    /\ (buildPc = "idle" /\ order # <<>>) =>
          {"ModuleA", "ModuleB"} \subseteq SeqSet(order)
    /\ \A i \in 1..Len(order) :
          \A q \in references[order[i]] : \E j \in 1..(i - 1) : order[j] = q
    /\ "ModuleA" \in SeqSet(order) =>
          /\ "ModuleB" \in SeqSet(order)
          /\ PosIn(order, "ModuleB") < PosIn(order, "ModuleA")

\* A build started at the root has finished, having compiled all three projects.
C2_Witness ==
    /\ buildPc = "idle"
    /\ order = <<"ModuleB", "ModuleA", "root">>

Stale(m) == distRev[m] # srcRev[m]

C4_NoDistForEntry ==
    /\ [](distRev["root"] = 0)
    /\ []((buildPc = "idle" /\ order # <<>>) =>
            (distRev["ModuleA"] > 0 /\ distRev["ModuleB"] > 0))
    /\ [][ bundleRev' # bundleRev =>
             (buildPc = "idle" /\ buildPc' = "idle" /\ distRev' = distRev) ]_vars

\* The root project was compiled by a finished build, the modules have a
\* dist, the entry point has a bundle and no dist.
C4_Witness ==
    /\ buildPc = "idle"
    /\ "root" \in SeqSet(order)
    /\ distRev["ModuleA"] > 0
    /\ distRev["ModuleB"] > 0
    /\ bundleRev > 0
    /\ distRev["root"] = 0

\* C5: with allowJs on, TSC typechecks a JavaScript file exactly when checkJs
\* is on and the file carries no // @ts-nocheck, or checkJs is off and the
\* file carries // @ts-check; no other JavaScript file is typechecked.
C5_JsTypecheckedExactlyWhen ==
    (tscRun.ran /\ allowJs) =>
        \A f \in JsFilesOf(ext) :
            f \in tscRun.checked <=>
                \/ checkJs /\ directive[f] # "nocheck"
                \/ ~checkJs /\ directive[f] = "check"

\* A run with checkJs on that skipped a // @ts-nocheck file and checked the
\* JavaScript file beside it.
C5_Witness ==
    /\ tscRun.ran
    /\ allowJs
    /\ checkJs
    /\ \E f, g \in JsFilesOf(ext) :
          /\ directive[f] = "nocheck"
          /\ f \notin tscRun.checked
          /\ directive[g] = "none"
          /\ g \in tscRun.checked

\* C6 as stated: with allowJs on and checkJs not enabled every JavaScript
\* file is transpiled, no JavaScript file is typechecked and no type error is
\* reported for JavaScript code.
C6_Original ==
    (tscRun.ran /\ allowJs /\ ~checkJs) =>
        /\ JsFilesOf(ext) \subseteq tscRun.transpiled
        /\ tscRun.checked \cap JsFilesOf(ext) = {}
        /\ tscRun.errors \cap JsFilesOf(ext) = {}

\* C6 (amended): with allowJs on and checkJs not enabled every JavaScript file
\* is transpiled and the JavaScript files typechecked are exactly those that
\* carry // @ts-check; at Step 1, where no file carries a directive yet, no
\* JavaScript file is typechecked and no type error is reported.
C6_NoJsCheckedWithoutDirective ==
    (tscRun.ran /\ allowJs /\ ~checkJs) =>
        /\ JsFilesOf(ext) \subseteq tscRun.transpiled
        /\ tscRun.checked \cap JsFilesOf(ext) =
              {f \in JsFilesOf(ext) : directive[f] = "check"}
        /\ step = 1 =>
              /\ tscRun.checked \cap JsFilesOf(ext) = {}
              /\ tscRun.errors = {}

\* TSC ran at Step 1 over JavaScript that hides type errors, transpiled every
\* file and reported nothing.
C6_Witness ==
    /\ step = 1
    /\ tscRun.ran
    /\ buggy = Files
    /\ tscRun.transpiled = Files
    /\ tscRun.errors = {}

JsInteropOff == step = 4 /\ ~allowJs

\* C7 as stated, its final state: once allowJs and checkJs are disabled in
\* Step 4 all code TSC compiles is TypeScript and no JavaScript file remains.
C7_Original ==
    JsInteropOff =>
        /\ ~checkJs
        /\ tscRun.ran => tscRun.transpiled \subseteq TsFilesOf(ext)
        /\ JsFilesOf(ext) = {}

\* C7 (amended): the procedure moves through Step 1, 2 (optional), 3, 4 in
\* that order and never back, keeps allowJs on until Step 4 and ends with
\* allowJs and checkJs both off for good; in that final state every file TSC
\* compiles is TypeScript, and the critical mass of the files, not
\* necessarily all of them, has been renamed.
C7_OrderedStepsEndJsOff ==
    /\ [][ /\ step' >= step
           /\ step = 0 => step' \in {0, 1}
           /\ step' = 4 => step \in {3, 4}
           /\ JsInteropOff => (~allowJs' /\ ~checkJs')
         ]_vars
    /\ [](step \in 1..3 => allowJs)
    /\ [](JsInteropOff =>
            /\ ~checkJs
            /\ tscRun.ran => tscRun.transpiled \subseteq TsFilesOf(ext)
            /\ CriticalMass(ext))

\* The flags are off, a .js file is left, and the TSC run compiled the
\* TypeScript files only.
C7_Witness ==
    /\ JsInteropOff
    /\ tscRun.ran
    /\ JsFilesOf(ext) # {}
    /\ tscRun.transpiled = TsFilesOf(ext)
    /\ tscRun.transpiled # {}

ChangedExt == {f \in Files : ext'[f] # ext[f]}

EndsWith(s, suffix) ==
    /\ Len(s) >= Len(suffix)
    /\ \A k \in 1..Len(suffix) : s[Len(s) - Len(suffix) + k] = suffix[k]

IsDeclarationFile(name) == EndsWith(name, <<".", "d", ".", "t", "s">>)
IsTypeScriptSource(name) ==
    EndsWith(name, <<".", "t", "s">>) /\ ~IsDeclarationFile(name)
IsJavaScriptFile(name) == EndsWith(name, <<".", "j", "s">>)

\* C9: a TypeScript source file (.ts, not .d.ts) is excluded from the NPM
\* package and kept in Git; a generated artifact (.d.ts or .js) is included
\* in the NPM package (the negation !*.d.ts wins over *.ts) and excluded
\* from Git; no file is excluded from both.
C9_IgnoreRules ==
    /\ IsTypeScriptSource(fileName) =>
          /\ inNpm \in {"?", "excluded"}
          /\ inGit \in {"?", "tracked"}
    /\ (IsDeclarationFile(fileName) \/ IsJavaScriptFile(fileName)) =>
          /\ inNpm \in {"?", "included"}
          /\ inGit \in {"?", "ignored"}
    /\ ~(inNpm = "excluded" /\ inGit = "ignored")

\* A declaration file that went into the NPM package and stayed out of Git.
C9_Witness ==
    /\ fileName = <<"t", ".", "d", ".", "t", "s">>
    /\ inNpm = "included"
    /\ inGit = "ignored"

\* The one `use` entry of the configuration, as the claim states it.
BabelUse ==
    [loader |-> "babel-loader",
     presets |-> <<"@babel/preset-env", "@babel/preset-typescript">>,
     presetEnv |-> [useBuiltIns |-> "usage", corejs |-> "3.6"]]

UnderNodeModules(path) ==
    \E i \in 1..(Len(path) - 1) : path[i] = "node_modules" /\ path[i + 1] = "/"

\* C10: the single module rule sends a file through babel-loader (presets
\* @babel/preset-env with useBuiltIns "usage" and corejs "3.6", then
\* @babel/preset-typescript) exactly when its path ends in .ts and holds no
\* node_modules; every other file, and every file under node_modules,
\* bypasses the loader.
C10_BabelLoaderRule ==
    built =>
        /\ loaders = <<BabelUse>> <=>
              /\ EndsWith(resource, <<".", "t", "s">>)
              /\ \A i \in 1..Len(resource) : resource[i] # "node_modules"
        /\ loaders # <<BabelUse>> => loaders = <<>>
        /\ UnderNodeModules(resource) => loaders = <<>>

\* A .ts file under node_modules that Webpack built without any loader.
C10_Witness ==
    /\ built
    /\ resource = <<"node_modules", "/", ".", "t", "s">>
    /\ loaders = <<>>

\* C11: with useBuiltIns "usage" a core-js import for a feature is added to a
\* compiled file exactly when the file uses the feature and the browserslist
\* targets include an environment lacking it; the injected imports resolve,
\* to the .js files of core-js.
C11_PolyfillsByUsageAndTargets ==
    /\ polyPc # "source" =>
          \A f \in Features :
              f \in injected <=>
                  (f \in uses /\ \E e \in targets : f \in lacks[e])
    /\ polyPc = "bundled" => missing = {}

\* A bundled file that uses two features: one that a target lacks, with its
\* import added and resolved, and one that every target provides, without.
C11_Witness ==
    /\ polyPc = "bundled"
    /\ uses = {1, 2}
    /\ injected = {1}
    /\ missing = {}
    /\ \E e \in Envs : e \notin targets /\ 2 \in lacks[e]

\* C12: in every interleaving of the Babel task and the TypeScript compiler
\* task, Babel writes for each file the same JavaScript whether or not the
\* typecheck has run or found errors; type errors are reported by the
\* TypeScript compiler task only, and that task emits no JavaScript.
C12_BabelIndependentOfTypecheck ==
    /\ \A f \in TaskFiles :
          f \notin babelTodo => {e \in emitted : e[2] = f} = {<<"babel", f, JsOf(f)>>}
    /\ \A e \in emitted : e[1] = "babel" /\ e[2] \notin babelTodo
    /\ \A r \in reports : r[1] = "tsc"
    /\ \A f \in TaskFiles :
          f \notin tscTodo => (<<"tsc", f>> \in reports <=> f \in typeErrors)

\* The typecheck reported an error in file 1 before Babel compiled that file,
\* and Babel wrote its JavaScript all the same.
C12_Witness ==
    /\ <<"tsc", 1>> \in reports
    /\ <<"babel", 1, 1>> \in emitted
    /\ babelTodo # {}
    /\ 2 \in tscTodo
    /\ 2 \notin babelTodo

\* C13: for a CommonJS module, a named import and a wildcard import are
\* accepted by the compiler whatever esModuleInterop is, and a default import
\* is accepted exactly when esModuleInterop is true.  (That acceptance does
\* not imply the import works at runtime is what C13_Witness exhibits.)
C13_DefaultImportNeedsInterop ==
    interopPc # "source" =>
        \A i \in Imports :
            /\ imports[i] \in {"named", "wildcard"} => i \in accepted
            /\ imports[i] = "default" => (i \in accepted <=> esModuleInterop)

\* Every import was accepted, among them a default import under
\* esModuleInterop and a wildcard import, and the default import fails at
\* runtime.
C13_Witness ==
    /\ interopPc = "run"
    /\ esModuleInterop
    /\ \E i \in Imports : imports[i] = "wildcard" /\ i \in accepted
    /\ \E i \in Imports : imports[i] = "default" /\ i \in accepted /\ i \notin works

\* C14: every setter of RequestBuilder stores its argument on the instance
\* and returns the instance it was called on, so a chain of setters in any
\* order and of any length never throws and always evaluates to the instance.
C14_SettersChainInAnyOrder ==
    /\ ~threw
    /\ chain = This
    /\ calls # <<>> =>
          LET last == calls[Len(calls)]
          IN  /\ last[1] = "setURL" => url = last[2]
              /\ last[1] = "setMethod" => method = last[2]

\* C15: NonNullable<F> for F = { a?: number | null } is the type
\* { a?: number }: NonNullable removes null from the property a of the
\* object type.
C15_NonNullableStripsPropertyNull ==
    (typeA = {Obj({"number", "null"})} /\ "NonNullable" \in applied)
        => nonNullable = {Obj({"number"})}

\* C16: Exclude<A, B> keeps exactly the members of A not assignable to B and
\* Extract<A, B> exactly those assignable to B, so the two partition A;
\* Exclude<number | string, string> is number and
\* Extract<"one" | "two" | 3, string> is "one" | "two".
C16_ExcludeExtractPartition ==
    /\ {"Exclude", "Extract"} \subseteq applied =>
          /\ excluded \cup extracted = typeA
          /\ excluded \cap extracted = {}
    /\ "Extract" \in applied =>
          \A m \in typeA :
              m \in extracted <=>
                  \E n \in typeB :
                      \/ m = n
                      \/ m.kind = "atom" /\ n = Atom(Base(m.name))
                      \/ m.kind = "object" /\ n.kind = "object"
                            /\ m.prop \subseteq n.prop
    /\ ("Exclude" \in applied
            /\ typeA = {Atom("number"), Atom("string")}
            /\ typeB = {Atom("string")})
          => excluded = {Atom("number")}
    /\ ("Extract" \in applied
            /\ typeA = {Atom("one"), Atom("two"), Atom("3")}
            /\ typeB = {Atom("string")})
          => extracted = {Atom("one"), Atom("two")}

\* Extract<"one" | "two" | 3, string> and Exclude of the same types have
\* both been evaluated: "one" | "two" and 3.
C16_Witness ==
    /\ applied = {"Exclude", "Extract"}
    /\ typeA = {Atom("one"), Atom("two"), Atom("3")}
    /\ typeB = {Atom("string")}
    /\ extracted = {Atom("one"), Atom("two")}
    /\ excluded = {Atom("3")}

\* C17: the numeric enum Flippable accepts any number where the enum type is
\* expected, members' values or not (flip(3), let a: Flippable = 8), whereas
\* the string-valued enum rejects every value that is not one of its
\* members.
C17_NumericEnumAcceptsAnyNumber ==
    enumVerdict # Pending =>
        /\ (enumKind = "numeric" /\ value.kind = "number") => enumVerdict = "ok"
        /\ (enumKind = "string" /\ value.kind # "member") => enumVerdict = "error"
        /\ value.kind = "member" => enumVerdict = "ok"

\* let a: Flippable = 8 was accepted for the numeric enum.
C17_Witness ==
    /\ enumKind = "numeric"
    /\ site = "assignment"
    /\ value = [kind |-> "number", v |-> 8]
    /\ enumVerdict = "ok"

\* C18: excess property checking is performed only when a fresh object
\* literal is assigned to another type: an object with prop: number and a
\* property outside Options is rejected when the literal is passed directly
\* to foo, and accepted once it was assigned to a variable or given a type
\* assertion.
C18_ExcessCheckOnlyWhenFresh ==
    (fooVerdict # Pending /\ props[prop] = "number") =>
        (fooVerdict = "error" <=>
            (via = "literal" /\ \E n \in NotTyped : props[n] # "absent"))

\* { prop: 1, notTyped: "hi" } went through a variable and foo took it.
C18_Witness ==
    /\ props[prop] = "number"
    /\ props[1] = "string"
    /\ via = "variable"
    /\ fooVerdict = "ok"

\* C19: starting from wasCalled = false, over any sequence of calls of
\* warnUser, alert is invoked exactly once, on the first call and with that
\* call's warning; wasCalled changes only from false to true and never back,
\* and every later call returns without any effect.
C19_AlertOnlyOnFirstCall ==
    /\ [](/\ wasCalled <=> warnCalls # <<>>
          /\ alerts = IF warnCalls = <<>> THEN <<>> ELSE <<warnCalls[1]>>)
    /\ [][wasCalled => (wasCalled' /\ alerts' = alerts)]_vars

\* warnUser was called with two different warnings and alerted the first.
C19_Witness ==
    /\ Len(warnCalls) >= 2
    /\ warnCalls[1] # warnCalls[2]
    /\ alerts = <<warnCalls[1]>>
    /\ wasCalled

\* C20: filter(array, f) returns exactly the items of array for which
\* f(item) is true, in their original relative order and with their
\* multiplicity, calls f once per item in index order, and leaves the input
\* array unchanged.
C20_FilterSelectsInOrder ==
    /\ [](returned =>
            /\ result = SelectSeq(array, LAMBDA item : item \in accepts)
            /\ fCalls = array)
    /\ [][array' = array]_vars

\* filter(["Peter", "Paul", "Suzy"], name => name.startsWith("P"))
C20_Witness ==
    /\ returned
    /\ array = <<"Peter", "Paul", "Suzy">>
    /\ accepts = {"Peter", "Paul"}
    /\ result = <<"Peter", "Paul">>

\* C21: iterating numbers yields the integers 1 to 10 in ascending order,
\* each exactly once, and then terminates; every iteration obtained through
\* Symbol.iterator starts from 1 and runs independently of any other
\* iteration in progress.
C21_NumbersYieldsOneToTen ==
    /\ [](\A i \in Iterations :
             /\ Len(yielded[i]) <= 10
             /\ \A k \in 1..Len(yielded[i]) : yielded[i][k] = k
             /\ iterPos[i] = "done" => Len(yielded[i]) = 10)
    /\ [][\A i \in Iterations :
             yielded'[i] # yielded[i] =>
                 \A j \in Iterations \ {i} :
                     yielded'[j] = yielded[j] /\ iterPos'[j] = iterPos[j]]_vars
    /\ \A i \in Iterations : (iterPos[i] = "created") ~> (iterPos[i] = "done")

\* One iteration has finished with 1 to 10 while another, begun meanwhile,
\* has yielded 1, 2, 3 so far.
C21_Witness ==
    /\ iterPos[1] = "done"
    /\ yielded[1] = <<1, 2, 3, 4, 5, 6, 7, 8, 9, 10>>
    /\ iterPos[2] = "suspended"
    /\ yielded[2] = <<1, 2, 3>>

\* C22: changeColour(shape, colour) returns a new object whose colour is the
\* given colour and whose every other property (name, sides) equals that of
\* shape, so a Square stays a Square; the shape argument itself is left
\* unchanged.
C22_ChangeColourKeepsShape ==
    /\ [](lastResult # 0 =>
             /\ lastResult # lastShape
             /\ heap[lastResult]["colour"] = lastColour
             /\ heap[lastResult]["name"] = heap[lastShape]["name"]
             /\ heap[lastResult]["sides"] = heap[lastShape]["sides"])
    /\ [][\A r \in 1..Len(heap) : heap'[r] = heap[r]]_vars

\* changeColour(square, "red") made a red square and left square blue.
C22_Witness ==
    /\ lastShape = 1
    /\ lastResult = 2
    /\ heap[1] = [name |-> "square", colour |-> "blue", sides |-> "4"]
    /\ heap[2] = [name |-> "square", colour |-> "red", sides |-> "4"]

\* C23: in every tsconfig state the migration passes through (Step 1, Step
\* 2a, Step 2a with noImplicitAny: false, Step 4), checkJs is true only while
\* allowJs is true: no step reaches checkJs on with allowJs off.
C23_CheckJsOnlyWithAllowJs == checkJs => allowJs

\* Step 2a with noImplicitAny: false: allowJs and checkJs are both on.
C23_Witness ==
    /\ step = 2
    /\ allowJs
    /\ checkJs
    /\ ~noImplicitAny

====
